---- MODULE Spec2Model ----
(***************************************************************************)
(* The calculus solver widget DifferentialIntegralSolver.                  *)
(*                                                                         *)
(* Two files of the repository define the component: src/app.js (the      *)
(* browser build, with the integration rule engine `integrate`) and       *)
(* src/unnamed/part_000 (a build whose solveInput delegates to            *)
(* math.integral / math.derivative).  The handlers other than solveInput  *)
(* are the same text in both files.  Spec is the app.js component,        *)
(* SpecPart000 the part_000 component.                                    *)
(*                                                                         *)
(* Text.  A JavaScript string is a sequence of pieces.  The characters of *)
(* the input field are one-character pieces ("x", " ", ...); the integral *)
(* sign U+222B is the piece "INT".  A string literal of the program is    *)
(* one piece holding the literal, so 'Error: ' + e.message is             *)
(* <<"Error: ">> \o message.                                              *)
(*                                                                         *)
(* MathJS.  `math` is not code of this repository.  Its functions are an  *)
(* environment: each is missing, throws, or returns.  What math.parse     *)
(* returns for the text of an integral's body is any tree of Trees (the   *)
(* node objects whose fields integrate reads).  The nodes the program     *)
(* only passes on (the tree parsed from a result template, a derivative,  *)
(* a simplified tree) and their toString() are uninterpreted: they are    *)
(* written as terms, parse(<text>), simplify(<node>), toString(<node>).   *)
(***************************************************************************)
EXTENDS Integers, Sequences, FiniteSets

VARIABLES
    input,          \* useState(''): the text of the input field
    showKeyboard,   \* useState(false): whether the symbol keyboard is rendered
    result,         \* useState(''): the text shown under the Solve button
    timers,         \* setTimeout callbacks of insertSymbol not yet run
    last,           \* history: the handler that ran last and what it did
    mousedown       \* history: e.target of the mousedown handled last, where recorded

vars == <<input, showKeyboard, result, timers, last, mousedown>>

---------------------------------------------------------------------------
(* Bounds of the model. *)

\* ConstantNode values of exponents returned by parse: -MaxExp .. MaxExp.
MaxExp == 2
\* ConstantNode values of coefficients returned by parse: -MaxCoeff .. MaxCoeff.
MaxCoeff == 1
\* insertSymbol is explored while the new input has at most this many characters.
MaxInsertLen == 1
\* setTimeout callbacks pending at once.
MaxPending == 1

---------------------------------------------------------------------------
(* Characters and strings. *)

INT == "INT"

\* The characters the JavaScript classes \s, trim() and [a-zA-Z] are asked about.
WhiteSpace == {" ", "\t"}
Letter == {"d", "x", "y", "e", "s", "i", "n", "c", "o", "t", "a", "l", "g"}

startsWith(s, prefix) ==
    /\ Len(s) >= Len(prefix)
    /\ SubSeq(s, 1, Len(prefix)) = prefix

RECURSIVE trimStart(_)
trimStart(s) ==
    IF s # <<>> /\ Head(s) \in WhiteSpace THEN trimStart(Tail(s)) ELSE s

RECURSIVE trimEnd(_)
trimEnd(s) ==
    IF s # <<>> /\ s[Len(s)] \in WhiteSpace
    THEN trimEnd(SubSeq(s, 1, Len(s) - 1))
    ELSE s

trim(s) == trimEnd(trimStart(s))

slice(s, from, to) == SubSeq(s, from + 1, to)

NoMatch == [matched |-> FALSE, g1 |-> <<>>, g2 |-> <<>>]

\* expr.match(/^INT\s*(.*?)\s*d([a-zA-Z])$/).  The string must end in
\* d<letter>.  Of what lies between the sign and that d, the first \s* is greedy
\* and takes the whole leading run of white space; the body is lazy and stops
\* at the first place from which only white space is left, so it ends at the
\* last character that is not white space.  (`.` excludes only line
\* terminators, which the value of a text input never holds.)
MatchIntegral(expr) ==
    LET n == Len(expr)
    IN  IF /\ n >= 3
           /\ expr[1] = INT
           /\ expr[n - 1] = "d"
           /\ expr[n] \in Letter
        THEN [matched |-> TRUE,
              g1 |-> trimEnd(trimStart(SubSeq(expr, 2, n - 2))),
              g2 |-> <<expr[n]>>]
        ELSE NoMatch

\* expr.match(/^d\/d([a-zA-Z])\s+(.*)$/): \s+ is greedy, the body is the rest.
MatchDerivative(expr) ==
    LET n == Len(expr)
        rest == trimStart(SubSeq(expr, 5, n))
    IN  IF /\ n >= 5
           /\ SubSeq(expr, 1, 3) = <<"d", "/", "d">>
           /\ expr[4] \in Letter
           /\ expr[5] \in WhiteSpace
        THEN [matched |-> TRUE, g1 |-> <<expr[4]>>, g2 |-> rest]
        ELSE NoMatch

---------------------------------------------------------------------------
(* JavaScript values held by a ConstantNode, and the operations integrate   *)
(* applies to them.                                                        *)

Number(n) == [t |-> "number", n |-> n, s |-> <<>>]
String(s) == [t |-> "string", n |-> 0, s |-> s]
Undefined == [t |-> "undefined", n |-> 0, s |-> <<>>]

Digit(k) == <<"0", "1", "2", "3", "4", "5", "6", "7", "8", "9">>[k + 1]

RECURSIVE Digits(_)
Digits(n) == IF n < 10 THEN <<Digit(n)>> ELSE Digits(n \div 10) \o <<Digit(n % 10)>>

\* `${v}` in a template literal.
Interpolate(v) ==
    CASE v.t = "number" -> IF v.n < 0 THEN <<"-">> \o Digits(-v.n) ELSE Digits(v.n)
      [] v.t = "string" -> v.s
      [] OTHER -> <<"undefined">>

\* Mutant of PlusOne: the exponent is not incremented.
PlusOneForgotten(v) == v

\* v + 1: addition on a number, concatenation on a string.
PlusOne(v) ==
    CASE v.t = "number" -> Number(v.n + 1)
      [] v.t = "string" -> String(v.s \o <<"1">>)
      [] OTHER -> Undefined

\* Mutant of IsZero: the logarithm case is never taken.
IsZeroNever(v) == FALSE

\* v === 0
IsZero(v) == v.t = "number" /\ v.n = 0

---------------------------------------------------------------------------
(* The node objects math.parse returns: the fields integrate reads.  A      *)
(* field a node type does not have reads as undefined.                     *)

Node(type, op, name, value, args) ==
    [type |-> type, op |-> op, name |-> name, value |-> value, args |-> args]

ConstantNode(v) == Node("ConstantNode", "", <<>>, v, <<>>)
SymbolNode(name) == Node("SymbolNode", "", <<name>>, Undefined, <<>>)
OperatorNode(op, args) == Node("OperatorNode", op, <<>>, Undefined, args)
FunctionNode(name, args) == Node("FunctionNode", "", name, Undefined, args)
ParenthesisNode(content) == Node("ParenthesisNode", "", <<>>, Undefined, <<content>>)
\* parse returned null: `parsed && ...` is false.
Null == Node("null", "", <<>>, Undefined, <<>>)

Truthy(node) == node.type # "null"
\* node.args[k]: undefined beyond the end of the array.
Arg(node, k) == IF k <= Len(node.args) THEN node.args[k] ELSE Null

Vars == {"x", "y"}
Exponents == {Number(n) : n \in -MaxExp..MaxExp}
Coefficients == {Number(c) : c \in -MaxCoeff..MaxCoeff}

Powers ==
    {OperatorNode("^", <<SymbolNode("x"), ConstantNode(e)>>) : e \in Exponents}
    \cup {OperatorNode("^", <<SymbolNode("y"), ConstantNode(Number(2))>>),
          \* a ConstantNode whose value is not a number (a string, a BigNumber)
          OperatorNode("^", <<SymbolNode("x"), ConstantNode(String(<<"2">>))>>)}

\* What math.parse may return for the body of an integral.
Trees ==
    {SymbolNode(v) : v \in Vars}
    \cup {ConstantNode(Number(1)), Null}
    \cup Powers
    \cup {OperatorNode("*", <<ConstantNode(c), p>>) : c \in Coefficients, p \in Powers}
    \cup {OperatorNode("*", <<ConstantNode(c), SymbolNode("x")>>) : c \in Coefficients}
    \cup {OperatorNode("*", <<SymbolNode("x"), ConstantNode(c)>>) : c \in Coefficients}
    \cup {\* x^y, 2^2, x^(-1) as a unary minus, x^2 * 3, 2 * 3, x * y, 2 * y
          OperatorNode("^", <<SymbolNode("x"), SymbolNode("y")>>),
          OperatorNode("^", <<ConstantNode(Number(2)), ConstantNode(Number(2))>>),
          OperatorNode("^", <<SymbolNode("x"),
                              OperatorNode("-", <<ConstantNode(Number(1))>>)>>),
          OperatorNode("*", <<OperatorNode("^", <<SymbolNode("x"), ConstantNode(Number(2))>>),
                              ConstantNode(Number(3))>>),
          OperatorNode("*", <<ConstantNode(Number(2)), ConstantNode(Number(3))>>),
          OperatorNode("*", <<SymbolNode("x"), SymbolNode("y")>>),
          OperatorNode("*", <<ConstantNode(Number(2)), SymbolNode("y")>>),
          \* x + 1, sin(x), (x)
          OperatorNode("+", <<SymbolNode("x"), ConstantNode(Number(1))>>),
          FunctionNode(<<"s", "i", "n">>, <<SymbolNode("x")>>),
          ParenthesisNode(SymbolNode("x"))}

---------------------------------------------------------------------------
(* What a call throws, and the behaviour of the MathJS functions.          *)

Error(message) == [kind |-> "Error", message |-> message]
\* `throw null`: reading e.message of it throws a TypeError.
ThrownNull == [kind |-> "null", message |-> <<>>]
NoError == [kind |-> "none", message |-> <<>>]

TypeError(what) == Error(<<"TypeError: ">> \o what)


\* mode: "missing" (typeof is not 'function'), "throws", "returns", or
\* "returnsNull" (the call returns null).
Capability(mode, thrown, tree) == [mode |-> mode, thrown |-> thrown, tree |-> tree]
Missing == Capability("missing", NoError, Null)
Throws(e) == Capability("throws", e, Null)
Returns == Capability("returns", NoError, Null)
ReturnsNull == Capability("returnsNull", NoError, Null)
ReturnsTree(t) == Capability("returns", NoError, t)


\* The global `math`: undefined (the script did not load) or an object.
Env(math, parse, derivative, simplify) ==
    [math |-> math, parse |-> parse, derivative |-> derivative, simplify |-> simplify]

MathUndefined == Env("undefined", Missing, Missing, Missing)

DefaultTree == OperatorNode("^", <<SymbolNode("x"), ConstantNode(Number(2))>>)

\* The trees of the component's specification Spec: one of each shape.
SomeTrees ==
    {DefaultTree, Null, SymbolNode("x"), SymbolNode("y"),
     OperatorNode("^", <<SymbolNode("x"), ConstantNode(Number(-1))>>),
     OperatorNode("*", <<ConstantNode(Number(3)), DefaultTree>>),
     OperatorNode("*", <<ConstantNode(Number(3)), SymbolNode("x")>>),
     OperatorNode("*", <<SymbolNode("y"), ConstantNode(Number(3))>>),
     FunctionNode(<<"s", "i", "n">>, <<SymbolNode("x")>>)}

AnError == Error(<<"mathjs: failure">>)

\* Spec: every combination of the three functions missing, throwing an Error
\* and returning; each of them throwing null, and derivative returning null;
\* and each tree of SomeTrees with simplify missing and returning.
Envs ==
    {MathUndefined}
    \cup {Env("object", p, d, s) :
            p \in {Missing, Throws(AnError), ReturnsTree(DefaultTree)},
            d \in {Missing, Throws(AnError), Returns},
            s \in {Missing, Throws(AnError), Returns}}
    \cup {Env("object", Throws(ThrownNull), Returns, Returns),
          Env("object", ReturnsTree(DefaultTree), Throws(ThrownNull), Returns),
          Env("object", ReturnsTree(DefaultTree), Returns, Throws(ThrownNull)),
          Env("object", ReturnsTree(DefaultTree), ReturnsNull, Missing),
          Env("object", ReturnsTree(DefaultTree), ReturnsNull, Returns)}
    \cup {Env("object", ReturnsTree(t), Returns, s) :
            t \in SomeTrees, s \in {Missing, Returns}}

\* SpecIntegrate: every tree of Trees, with simplify missing and returning.
RuleEnvs ==
    {Env("object", ReturnsTree(t), Returns, s) : t \in Trees, s \in {Missing, Returns}}

---------------------------------------------------------------------------
(* The record of one exchange with the environment, and the outcome of a    *)
(* block of statements: it set the result, or it threw.                    *)

\* fn: what was read or called; arg: the text or the node term passed; out:
\* the typeof answer, "returned" or "threw"; tree: the node parse returned for
\* a body; term: the node returned otherwise; exc: what was thrown.
Entry(fn, arg, out, tree, term, exc) ==
    [fn |-> fn, arg |-> arg, out |-> out, tree |-> tree, term |-> term, exc |-> exc]

Typeof(what, answer) == Entry(what, <<>>, answer, Null, <<>>, NoError)
Returned(fn, arg, term) == Entry(fn, arg, "returned", Null, term, NoError)
Threw(fn, arg, e) == Entry(fn, arg, "threw", Null, <<>>, e)

TypeofFunction(c) == IF c.mode = "missing" THEN "undefined" ELSE "function"

\* The node terms.
ParseTerm(text) == <<"parse(">> \o text \o <<")">>
SimplifyTerm(node) == <<"simplify(">> \o node \o <<")">>
DerivativeTerm(body, variable) == <<"derivative(">> \o body \o <<", ">> \o variable \o <<")">>
IntegralTerm(body, variable) == <<"integral(">> \o body \o <<", ">> \o variable \o <<")">>
NullTerm == <<"null">>
\* node.toString()
ToStringTerm(node) == <<"toString(">> \o node \o <<")">>

SetResult(text, trace) ==
    [result |-> text, set |-> TRUE, threw |-> FALSE, exc |-> NoError, trace |-> trace]
Throw(e, prev, trace) ==
    [result |-> prev, set |-> FALSE, threw |-> TRUE, exc |-> e, trace |-> trace]
\* The block ended without a call of setResult.
Unset(prev, trace) ==
    [result |-> prev, set |-> FALSE, threw |-> FALSE, exc |-> NoError, trace |-> trace]

NullMessage == TypeError(<<"Cannot read properties of null (reading 'message')">>)
NullToString == TypeError(<<"Cannot read properties of null (reading 'toString')">>)
NotAFunction(name) == TypeError(<<name, " is not a function">>)

\* try { ... } catch (e) { setResult('Error: ' + e.message); } around block o.
CatchSetError(o) ==
    IF ~o.threw THEN o
    ELSE IF o.exc.kind = "null" THEN Throw(NullMessage, o.result, o.trace)
    ELSE SetResult(<<"Error: ">> \o o.exc.message, o.trace)

---------------------------------------------------------------------------
(* integrate: the four rules, in the order of the code.                    *)

ln(variable) == <<"l", "n", "(">> \o variable \o <<")">>

PowerRule(parsed, variable) ==
    /\ Truthy(parsed) /\ parsed.type = "OperatorNode" /\ parsed.op = "^"
    /\ LET base == Arg(parsed, 1)
           exponent == Arg(parsed, 2)
       IN  /\ Truthy(base) /\ base.type = "SymbolNode" /\ base.name = variable
           /\ Truthy(exponent) /\ exponent.type = "ConstantNode"
           /\ exponent.value.t = "number"

PowerResult(parsed, variable) ==
    LET newExp == PlusOne(Arg(parsed, 2).value)
    IN  IF IsZero(newExp)
        THEN ln(variable)
        ELSE <<"(">> \o variable \o <<"^">> \o Interpolate(newExp) \o <<")", "/">>
                 \o Interpolate(newExp)

ConstantTimesPowerRule(parsed, variable) ==
    /\ Truthy(parsed) /\ parsed.type = "OperatorNode" /\ parsed.op = "*"
    /\ LET left == Arg(parsed, 1)
           right == Arg(parsed, 2)
       IN  /\ Truthy(left) /\ left.type = "ConstantNode"
           /\ Truthy(right) /\ right.type = "OperatorNode" /\ right.op = "^"
           /\ LET base == Arg(right, 1)
                  exp == Arg(right, 2)
              IN  /\ Truthy(base) /\ base.type = "SymbolNode" /\ base.name = variable
                  /\ Truthy(exp) /\ exp.type = "ConstantNode"

ConstantTimesPowerResult(parsed, variable) ==
    LET newExp == PlusOne(Arg(Arg(parsed, 2), 2).value)
        coeff == Arg(parsed, 1).value
    IN  IF IsZero(newExp)
        THEN Interpolate(coeff) \o <<" ", "*", " ">> \o ln(variable)
        ELSE <<"(">> \o Interpolate(coeff) \o <<" ", "*", " ">> \o variable \o <<"^">>
                 \o Interpolate(newExp) \o <<")", "/">> \o Interpolate(newExp)

BareSymbolRule(parsed, variable) ==
    Truthy(parsed) /\ parsed.type = "SymbolNode" /\ parsed.name = variable

BareSymbolResult(parsed, variable) ==
    <<"(">> \o variable \o <<"^", "2", ")", "/", "2">>

\* Mutant of ConstantTimesSymbolRule: the right operand's type is not checked.
ConstantTimesSymbolRuleAnyRight(parsed, variable) ==
    /\ Truthy(parsed) /\ parsed.type = "OperatorNode" /\ parsed.op = "*"
    /\ LET left == Arg(parsed, 1)
           right == Arg(parsed, 2)
       IN  \/ /\ Truthy(left) /\ left.type = "ConstantNode" /\ Truthy(right)
           \/ /\ Truthy(right) /\ right.type = "ConstantNode"
              /\ Truthy(left) /\ left.type = "SymbolNode" /\ left.name = variable

ConstantTimesSymbolRule(parsed, variable) ==
    /\ Truthy(parsed) /\ parsed.type = "OperatorNode" /\ parsed.op = "*"
    /\ LET left == Arg(parsed, 1)
           right == Arg(parsed, 2)
       IN  \/ /\ Truthy(left) /\ left.type = "ConstantNode"
              /\ Truthy(right) /\ right.type = "SymbolNode" /\ right.name = variable
           \/ /\ Truthy(right) /\ right.type = "ConstantNode"
              /\ Truthy(left) /\ left.type = "SymbolNode" /\ left.name = variable

\* Mutant of ConstantTimesSymbolResult: the coefficient is always read from
\* the left operand.
ConstantTimesSymbolResultLeft(parsed, variable) ==
    <<"(">> \o Interpolate(Arg(parsed, 1).value) \o <<" ", "*", " ">> \o variable
        \o <<"^", "2", ")", "/", "2">>

ConstantTimesSymbolResult(parsed, variable) ==
    LET left == Arg(parsed, 1)
        right == Arg(parsed, 2)
        coeff == IF left.type = "ConstantNode" THEN left.value ELSE right.value
    IN  <<"(">> \o Interpolate(coeff) \o <<" ", "*", " ">> \o variable
            \o <<"^", "2", ")", "/", "2">>

\* Mutant of Unsupported: the message does not name the expression.
UnsupportedUnnamed(expression) ==
    Error(<<"Integration not yet supported for this expression. Try: x, x^2, x^3, 2*x, etc.">>)

Unsupported(expression) ==
    Error(<<"Integration not yet supported for: ">> \o expression
              \o <<". Try: x, x^2, x^3, 2*x, etc.">>)

\* The text integrate hands to math.parse for its result; <<>> when no rule
\* recognizes the tree.
Template(parsed, variable) ==
    IF PowerRule(parsed, variable) THEN PowerResult(parsed, variable)
    ELSE IF ConstantTimesPowerRule(parsed, variable)
         THEN ConstantTimesPowerResult(parsed, variable)
    ELSE IF BareSymbolRule(parsed, variable) THEN BareSymbolResult(parsed, variable)
    ELSE IF ConstantTimesSymbolRule(parsed, variable)
         THEN ConstantTimesSymbolResult(parsed, variable)
    ELSE <<>>

\* [threw, exc, node, trace]: the node returned, or what was thrown.
integrate(expression, variable, env) ==
    LET p == env.parse
        parsed == IF p.mode = "returnsNull" THEN Null ELSE p.tree
        first == Entry("parse", expression, "returned", parsed, <<>>, NoError)
        template == Template(parsed, variable)
    IN  IF p.mode = "missing"
        THEN [threw |-> TRUE, exc |-> NotAFunction("math.parse"), node |-> NullTerm,
              trace |-> <<>>]
        ELSE IF p.mode = "throws"
        THEN [threw |-> TRUE, exc |-> p.thrown, node |-> NullTerm,
              trace |-> <<Threw("parse", expression, p.thrown)>>]
        ELSE IF template # <<>>
        THEN [threw |-> FALSE, exc |-> NoError, node |-> ParseTerm(template),
              trace |-> <<first, Returned("parse", template, ParseTerm(template))>>]
        ELSE [threw |-> TRUE, exc |-> Unsupported(expression), node |-> NullTerm,
              trace |-> <<first>>]

---------------------------------------------------------------------------
(* solveInput of src/app.js.                                               *)

MsgNotLoaded == <<"Error: MathJS is not loaded. Please check your internet connection.">>
MsgNoParse ==
    <<"Error: MathJS parse function is not available. The browser build may be incomplete.">>
MsgNoDerivative == <<"Error: MathJS derivative function is not available.">>
MsgIntegralFormat == <<"Invalid integral format. Use: INT expression dx (e.g., INT x^2 dx)">>
MsgDerivativeFormat == <<"Invalid derivative format. Use: d/dx expression (e.g., d/dx x^2)">>
MsgGuidance == <<"Please start your input with INT (for integral) or d/dx (for derivative).">>

\* Mutant of Render: a missing math.simplify is reported as an error.
RenderWithoutFallback(node, env, prev, trace) ==
    LET s == env.simplify
        probed == Append(trace, Typeof("typeof math.simplify", TypeofFunction(s)))
    IN  IF s.mode = "missing"
        THEN SetResult(<<"Error: MathJS simplify function is not available.">>, probed)
        ELSE IF s.mode = "throws"
        THEN Throw(s.thrown, prev, Append(probed, Threw("simplify", node, s.thrown)))
        ELSE SetResult(ToStringTerm(SimplifyTerm(node)),
                       Append(probed, Returned("simplify", node, SimplifyTerm(node))))

\* if (typeof math.simplify === 'function') result = math.simplify(node).toString();
\* else result = node.toString();  setResult(result);
Render(node, env, prev, trace) ==
    LET s == env.simplify
        probed == Append(trace, Typeof("typeof math.simplify", TypeofFunction(s)))
    IN  IF s.mode = "missing"
        THEN IF node = NullTerm
             THEN Throw(NullToString, prev, probed)
             ELSE SetResult(ToStringTerm(node), probed)
        ELSE IF s.mode = "throws"
        THEN Throw(s.thrown, prev, Append(probed, Threw("simplify", node, s.thrown)))
        ELSE IF s.mode = "returnsNull"
        THEN Throw(NullToString, prev, Append(probed, Returned("simplify", node, NullTerm)))
        ELSE SetResult(ToStringTerm(SimplifyTerm(node)),
                       Append(probed, Returned("simplify", node, SimplifyTerm(node))))

\* The inner try block of the integral branch.
SolveIntegral(body, variable, env, prev, trace) ==
    LET integral == integrate(body, variable, env)
    IN  IF integral.threw
        THEN Throw(integral.exc, prev, trace \o integral.trace)
        ELSE Render(integral.node, env, prev, trace \o integral.trace)

\* Mutant of SolveDerivative: the derivative branch calls integrate.
SolveDerivativeByIntegrate(body, variable, env, prev, trace) ==
    SolveIntegral(body, variable, env, prev, trace)

\* The inner try block of the derivative branch.
SolveDerivative(body, variable, env, prev, trace) ==
    LET d == env.derivative
        arg == body \o <<", ">> \o variable
    IN  IF d.mode = "throws"
        THEN Throw(d.thrown, prev, Append(trace, Threw("derivative", arg, d.thrown)))
        ELSE IF d.mode = "returnsNull"
        THEN Render(NullTerm, env, prev, Append(trace, Returned("derivative", arg, NullTerm)))
        ELSE Render(DerivativeTerm(body, variable), env, prev,
                    Append(trace, Returned("derivative", arg, DerivativeTerm(body, variable))))

\* One call of solveInput with `input` in the field and `prev` displayed:
\* [result, set, threw, exc, trace].
solveInput(value, prev, env) ==
    LET expr == trim(value)
        math == <<Typeof("typeof math", env.math)>>
    IN  CatchSetError(
          IF startsWith(expr, <<INT>>)
          THEN LET match == MatchIntegral(expr)
                   body == trim(match.g1)
                   variable == match.g2
                   probed == Append(math, Typeof("typeof math.parse", TypeofFunction(env.parse)))
               IN  IF match.matched
                   THEN IF env.math = "undefined" THEN SetResult(MsgNotLoaded, math)
                        ELSE IF env.parse.mode = "missing" THEN SetResult(MsgNoParse, probed)
                        ELSE CatchSetError(SolveIntegral(body, variable, env, prev, probed))
                   ELSE SetResult(MsgIntegralFormat, <<>>)
          ELSE IF startsWith(expr, <<"d", "/", "d">>)
          THEN LET match == MatchDerivative(expr)
                   variable == match.g1
                   body == trim(match.g2)
                   probed == Append(math, Typeof("typeof math.derivative",
                                                 TypeofFunction(env.derivative)))
               IN  IF match.matched
                   THEN IF env.math = "undefined" THEN SetResult(MsgNotLoaded, math)
                        ELSE IF env.derivative.mode = "missing"
                             THEN SetResult(MsgNoDerivative, probed)
                        ELSE CatchSetError(SolveDerivative(body, variable, env, prev, probed))
                   ELSE SetResult(MsgDerivativeFormat, <<>>)
          ELSE SetResult(MsgGuidance, <<>>))

---------------------------------------------------------------------------
(* solveInput of src/unnamed/part_000, which calls math.integral and        *)
(* math.derivative.                                                        *)

Env000(math, integral, derivative) ==
    [math |-> math, integral |-> integral, derivative |-> derivative]

Behaviours000 == {Missing, Throws(AnError), Throws(ThrownNull), Returns, ReturnsNull}

Envs000 ==
    {Env000("undefined", Missing, Missing)}
    \cup {Env000("object", i, d) : i \in Behaviours000, d \in Behaviours000}

MsgNeedsIntegral == <<"Integral solving requires MathJS with \"integral\" extension.">>
MsgNeedsMathJS == <<"Differentiation requires MathJS.">>
MsgDerivativeError == <<"Error computing derivative">>

solveInputPart000(value, prev, env) ==
    LET expr == trim(value)
        math == <<Typeof("typeof math", env.math)>>
    IN  CatchSetError(
          IF startsWith(expr, <<INT>>)
          THEN LET match == MatchIntegral(expr)
                   body == match.g1
                   variable == match.g2
                   f == env.integral
                   arg == body \o <<", ">> \o variable
                   probed == Append(math, Typeof("math.integral", TypeofFunction(f)))
               IN  IF match.matched
                   THEN IF env.math # "undefined" /\ f.mode # "missing"
                        THEN IF f.mode = "throws"
                             THEN Throw(f.thrown, prev,
                                        Append(probed, Threw("integral", arg, f.thrown)))
                             ELSE IF f.mode = "returnsNull"
                             THEN Throw(NullToString, prev,
                                        Append(probed, Returned("integral", arg, NullTerm)))
                             ELSE SetResult(ToStringTerm(IntegralTerm(body, variable)),
                                            Append(probed, Returned("integral", arg,
                                                       IntegralTerm(body, variable))))
                        ELSE SetResult(MsgNeedsIntegral,
                                       IF env.math = "undefined" THEN math ELSE probed)
                   ELSE Unset(prev, <<>>)
          ELSE IF startsWith(expr, <<"d", "/", "d">>)
          THEN LET match == MatchDerivative(expr)
                   variable == match.g1
                   body == match.g2
                   d == env.derivative
                   arg == body \o <<", ">> \o variable
                   probed == Append(math, Typeof("math.derivative", TypeofFunction(d)))
               IN  IF match.matched
                   THEN IF env.math # "undefined" /\ d.mode # "missing"
                        THEN IF d.mode = "throws"
                             THEN Throw(d.thrown, prev,
                                        Append(probed, Threw("derivative", arg, d.thrown)))
                             ELSE IF d.mode = "returnsNull"
                             THEN SetResult(MsgDerivativeError,
                                        Append(probed, Returned("derivative", arg, NullTerm)))
                             ELSE SetResult(ToStringTerm(DerivativeTerm(body, variable)),
                                            Append(probed, Returned("derivative", arg,
                                                       DerivativeTerm(body, variable))))
                        ELSE SetResult(MsgNeedsMathJS,
                                       IF env.math = "undefined" THEN math ELSE probed)
                   ELSE Unset(prev, <<>>)
          ELSE SetResult(MsgGuidance, <<>>))

---------------------------------------------------------------------------
(* The component.                                                          *)

SYMBOLS ==
    << <<INT>>, <<"d", "/", "d", "x", " ">>, <<"d", "x">>, <<"d", "y">>, <<"PARTIAL">>,
       <<"INFINITY">>, <<"PI">>, <<"SQRT">>, <<"^">>, <<"(">>, <<")">>, <<"e">>,
       <<"s", "i", "n">>, <<"c", "o", "s">>, <<"t", "a", "n">>, <<"l", "n">>,
       <<"l", "o", "g">> >>

\* The values typed or pasted into the field (e.target.value of onChange).
IntegralRequests ==
    {<<INT, " ", "x", "^", "2", " ", "d", "x">>,
     <<INT, "x", "^", "2", "d", "y">>,
     <<INT, "d", "x">>,
     <<INT, " ", "s", "i", "n", "(", "x", ")", " ", "d", "x">>,
     <<INT, " ", "x", " ", "d", "y", " ", "d", "x">>,
     <<" ", INT, "\t", "x", "^", "2", " ", "\t", "d", "x", " ">>}
MalformedIntegrals ==
    {<<INT>>, <<INT, "x", "^", "2">>, <<INT, " ", "x", " ", "d", "2">>, <<INT, "d">>}
DerivativeRequests ==
    {<<"d", "/", "d", "x", " ", "x", "^", "2">>,
     <<"d", "/", "d", "y", " ", "s", "i", "n", "(", "x", ")">>,
     <<" ", "d", "/", "d", "x", " ", "\t", "x", "^", "2", " ">>}
MalformedDerivatives ==
    {<<"d", "/", "d">>, <<"d", "/", "d", "x">>, <<"d", "/", "d", "x", "x", "^", "2">>,
     <<"d", "/", "d", " ", "x">>, <<"d", "/", "d", "2", " ", "x">>}
Unprefixed ==
    {<<>>, <<" ">>, <<"x", "^", "2">>, <<"x", INT, "d", "x">>, <<"d", "/", "x", " ", "x">>}

Values ==
    IntegralRequests \cup MalformedIntegrals \cup DerivativeRequests
        \cup MalformedDerivatives \cup Unprefixed

\* last: what the last call of solveInput did, while its input is still in the
\* field: whether it called setResult, whether an exception left it, its
\* exchanges with MathJS, whether `math` was defined, and what the same call
\* displays in a component that has displayed nothing yet.
Last(op, o, math, fresh) ==
    [op |-> op, set |-> o.set, threw |-> o.threw, trace |-> o.trace, math |-> math,
     fresh |-> fresh]
Idle == Last("", Unset(<<>>, <<>>), "", <<>>)

Init ==
    /\ input = <<>>
    /\ showKeyboard = FALSE
    /\ result = <<>>
    /\ timers = <<>>
    /\ last = Idle
    /\ mousedown = ""

\* onChange={e => setInput(e.target.value)}
setInput(values) ==
    \E value \in values :
        /\ input' = value
        /\ last' = Idle
        /\ mousedown' = ""
        /\ UNCHANGED <<showKeyboard, result, timers>>

OnChange == setInput(Values)

\* A keyboard button exists only while the keyboard is rendered.  start and
\* end are the caret of the field, which the browser owns.
InsertSymbol ==
    \E k \in 1..Len(SYMBOLS), start \in 0..Len(input), end \in 0..Len(input) :
        LET symbol == SYMBOLS[k]
            newInput == slice(input, 0, start) \o symbol \o slice(input, end, Len(input))
        IN  /\ showKeyboard
            /\ start <= end
            /\ Len(newInput) <= MaxInsertLen
            /\ Len(timers) < MaxPending
            /\ input' = newInput
            /\ timers' = Append(timers, start + Len(symbol))
            /\ last' = Idle
            /\ mousedown' = ""
            /\ UNCHANGED <<showKeyboard, result>>

\* The setTimeout callback of insertSymbol: it sets the caret and focuses the
\* field, which fires onFocus when the field did not have the focus.
CaretTimeout ==
    /\ timers # <<>>
    /\ timers' = Tail(timers)
    /\ \E focusEvent \in BOOLEAN : showKeyboard' = (showKeyboard \/ focusEvent)
    /\ mousedown' = ""
    /\ UNCHANGED <<input, result, last>>

HandleFocus ==
    /\ showKeyboard' = TRUE
    /\ mousedown' = ""
    /\ UNCHANGED <<input, result, timers, last>>

\* Mutant of handleClick: the keyboard's own buttons count as outside.
handleClickIgnoresKeyboard(target) ==
    /\ target = "keyboard" => showKeyboard
    /\ showKeyboard' = IF target = "input" THEN showKeyboard ELSE FALSE
    /\ UNCHANGED <<input, result, timers, last>>

\* mousedown on the document; the target is in the keyboard only while the
\* keyboard is rendered.
handleClick(target) ==
    /\ target = "keyboard" => showKeyboard
    /\ showKeyboard' = IF target = "outside" THEN FALSE ELSE showKeyboard
    /\ UNCHANGED <<input, result, timers, last>>

\* e.target: in the input field, in the keyboard, or anywhere else in the
\* document (the Solve button and the result included).
Targets == {"input", "keyboard", "outside"}
HandleClick == \E target \in Targets : handleClick(target) /\ mousedown' = ""

\* The same event, its target recorded.
MouseDown == \E target \in Targets : handleClick(target) /\ mousedown' = target

\* The Solve button of src/app.js, with MathJS behaving as one of envs.
Solve(envs) ==
    \E env \in envs :
        LET o == solveInput(input, result, env)
        IN  /\ result' = o.result
            /\ last' = Last("solveInput", o, env.math, solveInput(input, <<>>, env).result)
            /\ mousedown' = ""
            /\ UNCHANGED <<input, showKeyboard, timers>>

SolveInput == Solve(Envs)

\* The Solve button of src/unnamed/part_000.
SolveInputPart000 ==
    \E env \in Envs000 :
        LET o == solveInputPart000(input, result, env)
        IN  /\ result' = o.result
            /\ last' = Last("solveInput", o, env.math,
                            solveInputPart000(input, <<>>, env).result)
            /\ mousedown' = ""
            /\ UNCHANGED <<input, showKeyboard, timers>>

Next ==
    \/ OnChange
    \/ InsertSymbol
    \/ CaretTimeout
    \/ HandleFocus
    \/ HandleClick
    \/ SolveInput

Spec == Init /\ [][Next]_vars

NextPart000 ==
    \/ OnChange
    \/ InsertSymbol
    \/ CaretTimeout
    \/ HandleFocus
    \/ HandleClick
    \/ SolveInputPart000

SpecPart000 == Init /\ [][NextPart000]_vars

\* The integration rule engine: the component given integral requests only,
\* with math.parse returning every tree of Trees.
OnChangeIntegral == setInput(IntegralRequests)

SolveIntegralRequest == Solve(RuleEnvs)

NextIntegrate == OnChangeIntegral \/ SolveIntegralRequest

SpecIntegrate == Init /\ [][NextIntegrate]_vars

\* The keyboard: the component with the target of each mousedown recorded,
\* and MathJS absent, failing or working.
KeyboardEnvs ==
    {MathUndefined,
     Env("object", Throws(AnError), Throws(AnError), Missing),
     Env("object", ReturnsTree(DefaultTree), Returns, Returns)}

SolveKeyboard == Solve(KeyboardEnvs)

NextKeyboard ==
    \/ OnChange
    \/ InsertSymbol
    \/ CaretTimeout
    \/ HandleFocus
    \/ MouseDown
    \/ SolveKeyboard

SpecKeyboard == Init /\ [][NextKeyboard]_vars

---------------------------------------------------------------------------
(* What the claims speak of, read from the state.                          *)

\* solveInput ran last and its input is still in the field.
Solved == last.op = "solveInput"
Request == trim(input)
IsIntegralRequest == startsWith(Request, <<INT>>)
IsDerivativeRequest == ~IsIntegralRequest /\ startsWith(Request, <<"d", "/", "d">>)

\* The calls of a MathJS function during the last solveInput (typeof reads
\* are not calls), as positions of last.trace.
CallsOf(fn) ==
    {k \in DOMAIN last.trace : last.trace[k].fn = fn /\ last.trace[k].out \in {"returned", "threw"}}
Calls == UNION {CallsOf(fn) : fn \in {"parse", "derivative", "simplify", "integral"}}

---------------------------------------------------------------------------
\* C1: one call of solveInput ends with the result set by setResult to a text
\* that is not empty, and no exception leaves it.
C1_SetsResultNeverThrows ==
    Solved => last.set /\ ~last.threw /\ result # <<>>

\* C1, in src/app.js: a MathJS function threw null and the inner catch threw
\* in turn, yet the result was set by the outer catch.
C1_WitnessThrownNull ==
    /\ Solved /\ last.set
    /\ \E k \in Calls : last.trace[k].out = "threw" /\ last.trace[k].exc = ThrownNull

\* C1, in src/unnamed/part_000: an integral request that does not match the
\* pattern made solveInput return without a call of setResult.
C1_WitnessReturnsUnset ==
    /\ Solved /\ IsIntegralRequest /\ ~MatchIntegral(Request).matched
    /\ ~last.set /\ ~last.threw

---------------------------------------------------------------------------
\* C2: solveInput routes by the prefix of the trimmed input: an integral
\* request never reaches math.derivative, a derivative request never reaches
\* integrate (whose first act is math.parse), and any other input shows the
\* guidance message with no exchange with MathJS at all.
C2_RoutesByPrefix ==
    Solved =>
        /\ IsIntegralRequest => CallsOf("derivative") = {}
        /\ IsDerivativeRequest => CallsOf("parse") = {}
        /\ ~IsIntegralRequest /\ ~IsDerivativeRequest =>
               result = MsgGuidance /\ last.trace = <<>>

\* C2: a derivative request reached math.derivative, which returned.
C2_WitnessDerivativeRouted ==
    /\ Solved /\ IsDerivativeRequest
    /\ \E k \in CallsOf("derivative") : last.trace[k].out = "returned"

---------------------------------------------------------------------------
\* C3: an integral request that does not match INT <body> d<letter> shows the
\* integral usage message, a derivative request that does not match
\* d/d<letter> <white space> <body> shows the derivative usage message, and in
\* both cases MathJS is neither asked about nor called.
C3_UsageMessages ==
    Solved =>
        /\ IsIntegralRequest /\ ~MatchIntegral(Request).matched =>
               result = MsgIntegralFormat /\ last.set /\ last.trace = <<>>
        /\ IsDerivativeRequest /\ ~MatchDerivative(Request).matched =>
               result = MsgDerivativeFormat /\ last.set /\ last.trace = <<>>

\* C3, in src/app.js: the derivative usage message is shown for "d/dxx^2" (no
\* white space after the variable).
C3_WitnessNoWhiteSpace ==
    /\ Solved /\ input = <<"d", "/", "d", "x", "x", "^", "2">>
    /\ result = MsgDerivativeFormat

\* C3, in src/unnamed/part_000: "d/dxx^2" was solved and the derivative usage
\* message is not what is displayed.
C3_WitnessNoUsageMessage ==
    /\ Solved /\ input = <<"d", "/", "d", "x", "x", "^", "2">>
    /\ result # MsgDerivativeFormat

---------------------------------------------------------------------------
(* The integral branch, read from the state.                               *)

\* math.parse returned a tree for the body: the first call of parse.
HasBodyTree ==
    /\ Solved /\ CallsOf("parse") # {}
    /\ \A k \in CallsOf("parse") : last.trace[k].out = "returned"
FirstParse == CHOOSE k \in CallsOf("parse") : \A o \in CallsOf("parse") : k <= o
BodyTree == last.trace[FirstParse].tree
Body == trim(MatchIntegral(Request).g1)
Variable == MatchIntegral(Request).g2

\* integrate returned a tree: the second call of parse, made on the text of
\* the result.  ResultText is that text, ResultTree the node.
HasResultTree == HasBodyTree /\ Cardinality(CallsOf("parse")) = 2
SecondParse == CHOOSE k \in CallsOf("parse") : k # FirstParse
ResultText == last.trace[SecondParse].arg
ResultTree == last.trace[SecondParse].term

\* The displayed result is the text of `node`, simplified or not.
Displays(node) ==
    result \in {ToStringTerm(node), ToStringTerm(SimplifyTerm(node))}

\* The trees v^n and c*v^n, and their integrals as text.
ExponentRange == -(MaxExp + 1)..(MaxExp + 1)
CoefficientRange == -(MaxCoeff + 1)..(MaxCoeff + 1)
Pow(v, n) == OperatorNode("^", <<SymbolNode(v[1]), ConstantNode(Number(n))>>)
Times(c, t) == OperatorNode("*", <<ConstantNode(Number(c)), t>>)
Decimal(n) == IF n < 0 THEN <<"-">> \o Digits(-n) ELSE Digits(n)

---------------------------------------------------------------------------
\* C4: for every integer n # -1, integrate on the tree v^n returns the tree of
\* (v^(n+1))/(n+1), and on c*v^n the tree of (c * v^(n+1))/(n+1); solving
\* "INT x^2 dx" displays the text of the tree of (x^3)/3.
C4_PowerRule ==
    HasBodyTree =>
        /\ \A n \in ExponentRange \ {-1} :
               BodyTree = Pow(Variable, n) =>
                   /\ HasResultTree
                   /\ ResultText = <<"(">> \o Variable \o <<"^">> \o Decimal(n + 1)
                                       \o <<")", "/">> \o Decimal(n + 1)
                   /\ Displays(ParseTerm(ResultText))
        /\ \A n \in ExponentRange \ {-1}, c \in CoefficientRange :
               BodyTree = Times(c, Pow(Variable, n)) =>
                   /\ HasResultTree
                   /\ ResultText = <<"(">> \o Decimal(c) \o <<" ", "*", " ">> \o Variable
                                       \o <<"^">> \o Decimal(n + 1) \o <<")", "/">>
                                       \o Decimal(n + 1)
                   /\ Displays(ParseTerm(ResultText))
        /\ input = <<INT, " ", "x", "^", "2", " ", "d", "x">> /\ BodyTree = Pow(<<"x">>, 2) =>
               Displays(ParseTerm(<<"(", "x", "^", "3", ")", "/", "3">>))

\* C4: a negative exponent and a negative coefficient: -1 * x^-2 was
\* integrated to (-1 * x^-1)/-1.
C4_WitnessNegative ==
    /\ HasResultTree /\ BodyTree = Times(-1, Pow(<<"x">>, -2)) /\ Variable = <<"x">>
    /\ ResultText = <<"(", "-", "1", " ", "*", " ", "x", "^", "-", "1", ")", "/", "-", "1">>

---------------------------------------------------------------------------
\* C5: integrating v^-1 yields the tree of ln(v) and c*v^-1 the tree of
\* c * ln(v), and no result text divides by 0.
C5_LogarithmBranch ==
    HasBodyTree =>
        /\ BodyTree = Pow(Variable, -1) =>
               /\ HasResultTree
               /\ ResultText = <<"l", "n", "(">> \o Variable \o <<")">>
               /\ Displays(ParseTerm(ResultText))
        /\ \A c \in CoefficientRange :
               BodyTree = Times(c, Pow(Variable, -1)) =>
                   /\ HasResultTree
                   /\ ResultText = Decimal(c) \o <<" ", "*", " ", "l", "n", "(">>
                                       \o Variable \o <<")">>
                   /\ Displays(ParseTerm(ResultText))
        /\ HasResultTree =>
               ~(/\ Len(ResultText) >= 2
                 /\ SubSeq(ResultText, Len(ResultText) - 1, Len(ResultText)) = <<"/", "0">>)

\* C5: c*x^-1 with c = -1 was integrated to -1 * ln(x).
C5_WitnessTimesLn ==
    /\ HasResultTree /\ BodyTree = Times(-1, Pow(<<"x">>, -1)) /\ Variable = <<"x">>
    /\ ResultText = <<"-", "1", " ", "*", " ", "l", "n", "(", "x", ")">>

---------------------------------------------------------------------------
\* C6: integrating the bare variable v yields (v^2)/2, and integrating c*v or
\* v*c yields (c * v^2)/2 with the same c: the two orders give the same tree.
C6_SymbolRules ==
    HasBodyTree =>
        /\ BodyTree = SymbolNode(Variable[1]) =>
               /\ HasResultTree
               /\ ResultText = <<"(">> \o Variable \o <<"^", "2", ")", "/", "2">>
        /\ \A c \in CoefficientRange :
               \/ BodyTree = Times(c, SymbolNode(Variable[1]))
               \/ BodyTree = OperatorNode("*", <<SymbolNode(Variable[1]),
                                                 ConstantNode(Number(c))>>)
               => /\ HasResultTree
                  /\ ResultText = <<"(">> \o Decimal(c) \o <<" ", "*", " ">> \o Variable
                                      \o <<"^", "2", ")", "/", "2">>
                  /\ Displays(ParseTerm(ResultText))

\* C6: the constant is the right operand: x * -1 was integrated to (-1 * x^2)/2.
C6_WitnessConstantRight ==
    /\ HasResultTree /\ Variable = <<"x">>
    /\ BodyTree = OperatorNode("*", <<SymbolNode("x"), ConstantNode(Number(-1))>>)
    /\ ResultText = <<"(", "-", "1", " ", "*", " ", "x", "^", "2", ")", "/", "2">>

---------------------------------------------------------------------------
\* C7: when the tree of an integral's body matches none of the four rules,
\* integrate throws and the result is 'Error: ' and a message that holds the
\* body text literally and ends with the supported forms; integrate parses no
\* result tree and math.simplify is neither asked about nor called.  A symbol
\* other than the integration variable and a function call are such bodies.
NoRule(t, v) ==
    /\ ~PowerRule(t, v) /\ ~ConstantTimesPowerRule(t, v)
    /\ ~BareSymbolRule(t, v) /\ ~ConstantTimesSymbolRule(t, v)

Contains(text, part) ==
    \E k \in 0..(Len(text) - Len(part)) : SubSeq(text, k + 1, k + Len(part)) = part

ShowsUnsupported ==
    /\ result = <<"Error: ", "Integration not yet supported for: ">> \o Body
                    \o <<". Try: x, x^2, x^3, 2*x, etc.">>
    /\ Contains(result, Body)
    /\ last.set
    /\ Cardinality(CallsOf("parse")) = 1
    /\ CallsOf("simplify") = {}
    /\ \A k \in DOMAIN last.trace : last.trace[k].fn # "typeof math.simplify"

C7_UnsupportedExpression ==
    HasBodyTree =>
        /\ NoRule(BodyTree, Variable) => ShowsUnsupported
        /\ BodyTree.type = "FunctionNode" => ShowsUnsupported
        /\ BodyTree.type = "SymbolNode" /\ BodyTree.name # Variable => ShowsUnsupported

\* C7: "INT sin(x) dx" with the tree of a function call shows the message
\* naming sin(x).
C7_WitnessSin ==
    /\ HasBodyTree /\ input = <<INT, " ", "s", "i", "n", "(", "x", ")", " ", "d", "x">>
    /\ BodyTree.type = "FunctionNode"
    /\ Contains(result, <<"s", "i", "n", "(", "x", ")">>)

---------------------------------------------------------------------------
\* C8: at most one of the four recognizers accepts a tree and variable, so
\* trying the rules in any order gives what integrate gives: the same result
\* text, or no rule at all.
Recognizes(k, t, v) ==
    CASE k = 1 -> PowerRule(t, v)
      [] k = 2 -> ConstantTimesPowerRule(t, v)
      [] k = 3 -> BareSymbolRule(t, v)
      [] k = 4 -> ConstantTimesSymbolRule(t, v)

ResultOf(k, t, v) ==
    CASE k = 1 -> PowerResult(t, v)
      [] k = 2 -> ConstantTimesPowerResult(t, v)
      [] k = 3 -> BareSymbolResult(t, v)
      [] k = 4 -> ConstantTimesSymbolResult(t, v)

Orders == {p \in [1..4 -> 1..4] : \A a, b \in 1..4 : p[a] = p[b] => a = b}

\* The result text of the first rule, in order p, that accepts; <<>> if none.
FirstInOrder(p, t, v) ==
    LET accepting == {a \in 1..4 : Recognizes(p[a], t, v)}
        first == CHOOSE a \in accepting : \A b \in accepting : a <= b
    IN  IF accepting = {} THEN <<>> ELSE ResultOf(p[first], t, v)

C8_RulesDisjoint ==
    HasBodyTree =>
        /\ Cardinality({k \in 1..4 : Recognizes(k, BodyTree, Variable)}) <= 1
        /\ \A p \in Orders :
               FirstInOrder(p, BodyTree, Variable) =
                   IF HasResultTree THEN ResultText ELSE <<>>

\* C8: 1 * x^2, a product whose left operand is a constant, was accepted by the
\* constant-times-power rule alone.
C8_WitnessProduct ==
    /\ HasResultTree /\ BodyTree = Times(1, Pow(<<"x">>, 2)) /\ Variable = <<"x">>
    /\ {k \in 1..4 : Recognizes(k, BodyTree, Variable)} = {2}

---------------------------------------------------------------------------
\* C9: once the integral or the derivative is obtained as a tree: with
\* math.simplify missing the result is that tree's text and simplify is not
\* called; with math.simplify present it is called exactly once, on that tree
\* and after it was obtained, and the result is the text of what it returned.
\* No call of simplify precedes the call that yields the tree.
NodeCalls ==
    IF IsIntegralRequest
    THEN {k \in CallsOf("parse") : HasResultTree /\ k = SecondParse}
    ELSE {k \in CallsOf("derivative") :
              last.trace[k].out = "returned" /\ last.trace[k].term # NullTerm}
HasNode == Solved /\ NodeCalls # {}
NodeCall == CHOOSE k \in NodeCalls : TRUE
SimplifyIs(answer) ==
    \E k \in DOMAIN last.trace :
        last.trace[k].fn = "typeof math.simplify" /\ last.trace[k].out = answer

C9_SimplifyFallback ==
    /\ HasNode =>
           LET node == last.trace[NodeCall].term
           IN  /\ SimplifyIs("undefined") \/ SimplifyIs("function")
               /\ SimplifyIs("undefined") =>
                      /\ result = ToStringTerm(node) /\ last.set
                      /\ CallsOf("simplify") = {}
               /\ SimplifyIs("function") =>
                      /\ Cardinality(CallsOf("simplify")) = 1
                      /\ \A k \in CallsOf("simplify") :
                             /\ k > NodeCall
                             /\ last.trace[k].arg = node
                             /\ last.trace[k].out = "returned" =>
                                    /\ last.trace[k].term = SimplifyTerm(node)
                                    /\ result = ToStringTerm(last.trace[k].term)
                                    /\ last.set
    /\ Solved =>
           \A k \in CallsOf("simplify") :
               \E j \in CallsOf("parse") \cup CallsOf("derivative") :
                   j < k /\ last.trace[j].out = "returned"

\* C9: an integral was obtained with math.simplify missing, and its
\* unsimplified text is displayed.
C9_WitnessFallback ==
    /\ HasNode /\ IsIntegralRequest /\ SimplifyIs("undefined")
    /\ result = ToStringTerm(ParseTerm(<<"(", "x", "^", "3", ")", "/", "3">>))

---------------------------------------------------------------------------
\* C10: the result a solve displays depends on the input and on the behaviour
\* of MathJS only: it is what the same call displays in a component that has
\* displayed nothing before (last.fresh), whatever was displayed before.
C10_Stateless ==
    Solved => result = last.fresh

\* C10, in src/unnamed/part_000: a solve left the guidance message of an
\* earlier solve on display, where a fresh component displays nothing.
C10_WitnessStaleResult ==
    /\ Solved /\ ~last.set /\ result = MsgGuidance /\ last.fresh = <<>>

---------------------------------------------------------------------------
\* C11: the keyboard is hidden initially; a focus of the input field makes it
\* visible; only a mousedown whose target is outside the input field and the
\* keyboard hides it, so it stays visible through insertions, edits and
\* solves; solveInput and insertSymbol (its setTimeout callback included)
\* never change the visibility, and insertSymbol never changes the result.
C11_KeyboardVisibility ==
    /\ ~showKeyboard
    /\ [][/\ HandleFocus => showKeyboard'
          /\ showKeyboard /\ ~showKeyboard' => mousedown' = "outside"
          /\ showKeyboard' # showKeyboard =>
                 ~(SolveKeyboard \/ OnChange \/ InsertSymbol \/ CaretTimeout)
          /\ result' # result => ~(InsertSymbol \/ CaretTimeout)]_vars

\* C11 as amended: as above, except that the setTimeout callback of
\* insertSymbol, which focuses the input field, may make a hidden keyboard
\* visible; it never hides it.
C11_KeyboardVisibilityAmended ==
    /\ ~showKeyboard
    /\ [][/\ HandleFocus => showKeyboard'
          /\ showKeyboard /\ ~showKeyboard' => mousedown' = "outside"
          /\ ~showKeyboard /\ showKeyboard' => HandleFocus \/ CaretTimeout
          /\ showKeyboard' # showKeyboard =>
                 ~(SolveKeyboard \/ OnChange \/ InsertSymbol)
          /\ result' # result => ~(InsertSymbol \/ CaretTimeout)]_vars

\* C11: the keyboard is still visible after a mousedown on one of its
\* buttons, the insertion of the symbol (its callback is pending), a
\* mousedown in the input field, and a solve.
C11_WitnessStillVisible ==
    /\ showKeyboard /\ Solved /\ timers # <<>> /\ input # <<>> /\ result # <<>>

\* C11: a mousedown outside has hidden the keyboard while the callback of an
\* insertion is pending.
C11_WitnessHiddenOutside ==
    /\ ~showKeyboard /\ mousedown = "outside" /\ timers # <<>>

====
